---- MODULE Spec2Model ----
(***************************************************************************)
(* A model of STRIDE GPT (src/main.py): one Streamlit session.  Every      *)
(* click or edit reruns the script top to bottom in a fresh namespace;     *)
(* only st.session_state survives from one run to the next.                *)
(*                                                                         *)
(* Text is a sequence of characters (one-character strings).  A run of     *)
(* characters none of which is a backtick, a bar, a blank or a line break  *)
(* may be written as one element ("mermaid", "Threat Type").               *)
(***************************************************************************)
EXTENDS Integers, Sequences, FiniteSets, TLC

VARIABLES
    pc,             \* where the script run is: idle, tm, tm_call, at, at_call, mit, mit_call
    button,         \* the button whose click started the current run
    app_input,      \* the description text area
    profile,        \* the five other input widgets
    session,        \* st.session_state['threat_model']
    errors,         \* st.error messages of the current run, in order
    shown,          \* results displayed by the current run
    downloads,      \* download buttons created by the current run
    sections,       \* expanders the current run has rendered
    uncaught,       \* the exception that ended the current run, "" if none
    calls,          \* chat-completion calls issued by the current run
    inflight,       \* calls issued and not yet returned
    pre,            \* history: session when the current run started
    outcome,        \* history: how the clicked task ended in the current run
    raised_in,      \* history: the step of the task that raised, "" if none
    last_success,   \* history: threat list of the last ThreatModel Success
    raised_msg,     \* history: text of the failure the current run's call raised, "" if none
    last_attempt,   \* history: how the last ThreatModel call ended: none, success, failed
    tree_body,      \* attack-tree interpreter: the text between the fences
    tree_out,       \* attack-tree interpreter: the result
    table_in,       \* presenter: the threat list
    table_out       \* presenter: the markdown produced

vars == <<pc, button, app_input, profile, session, errors, shown, downloads,
          sections, uncaught, calls, inflight, pre, outcome, raised_in,
          last_success, raised_msg, last_attempt, tree_body, tree_out, table_in,
          table_out>>

run_vars == <<pc, button, app_input, profile, session, errors, shown, downloads,
              sections, uncaught, calls, inflight, pre, outcome, raised_in,
              last_success, raised_msg, last_attempt>>

pure_vars == <<tree_body, tree_out, table_in, table_out>>

----------------------------------------------------------------------------
(* Bounds *)

\* longest threat list the service returns in the session model
MaxThreats == 2
\* longest attack-tree body
MaxBody == 5
\* longest threat list rendered by the presenter model
MaxRows == 2

----------------------------------------------------------------------------
(* Text helpers *)

RECURSIVE Concat(_)
Concat(ss) == IF ss = <<>> THEN <<>> ELSE Head(ss) \o Concat(Tail(ss))

SeqsUpTo(S, n) == UNION {[1..k -> S] : k \in 0..n}

\* Python's \s, as far as the modelled alphabet goes
Whitespace == {" ", "\n", "\t"}

IsPrefixAt(s, i, p) ==
    /\ i + Len(p) - 1 <= Len(s)
    /\ \A k \in 1..Len(p) : s[i + k - 1] = p[k]

\* the first position at or after i that holds no whitespace (Len(s)+1 if none)
RECURSIVE SkipWs(_, _)
SkipWs(s, i) ==
    IF i <= Len(s) /\ s[i] \in Whitespace THEN SkipWs(s, i + 1) ELSE i

\* re.MULTILINE: ^ matches at the start of the text and after each line break
AtLineStart(s, i) == i = 1 \/ s[i - 1] = "\n"

\* re.MULTILINE: $ matches at the end of the text and before each line break
AtLineEnd(s, i) == i = Len(s) + 1 \/ s[i] = "\n"

----------------------------------------------------------------------------
(* Response Interpreter, attack tree: src/main.py 143-146 *)

\* the backtick character (the module's lexer takes no backtick in a string)
BT == "BT"

Marker == <<BT, BT, BT, "mermaid">>
Fence == <<BT, BT, BT>>

\* MatchEnd for the pattern  ^```mermaid\s*|```$ : the closing delimiter
\* without the whitespace before it
MatchEndNoWs(s, i) ==
    IF AtLineStart(s, i) /\ IsPrefixAt(s, i, Marker)
    THEN SkipWs(s, i + Len(Marker))
    ELSE IF IsPrefixAt(s, i, Fence) /\ AtLineEnd(s, i + Len(Fence))
         THEN i + Len(Fence)
         ELSE 0

\* Where a match of  ^```mermaid\s*|\s*```$  that starts at i ends (the
\* position after it), 0 if none starts at i.  \s* is greedy and what follows
\* it in the second alternative is no whitespace, so backtracking finds
\* nothing the greedy attempt does not.
MatchEnd(s, i) ==
    IF AtLineStart(s, i) /\ IsPrefixAt(s, i, Marker)
    THEN SkipWs(s, i + Len(Marker))
    ELSE LET j == SkipWs(s, i)
         IN  IF IsPrefixAt(s, j, Fence) /\ AtLineEnd(s, j + Len(Fence))
             THEN j + Len(Fence)
             ELSE 0

\* re.sub(pattern, '', s): every non-overlapping match, leftmost first, removed
RECURSIVE re_sub(_, _)
re_sub(s, i) ==
    IF i > Len(s) THEN <<>>
    ELSE LET e == MatchEnd(s, i)
         IN  IF e # 0 THEN re_sub(s, e) ELSE <<s[i]>> \o re_sub(s, i + 1)

\* what get_attack_tree returns for the content of the service's message
get_attack_tree(content) == re_sub(content, 1)

\* the raw text the claim is about: marker line, body, delimiter line
Wrap(body) == Marker \o <<"\n">> \o body \o <<"\n">> \o Fence

----------------------------------------------------------------------------
(* Presenter, threat model: src/main.py 79-94 *)

\* JSON values as Python holds them: a list, or None (JSON null)
List(items) == [kind |-> "list", items |-> items]
None == [kind |-> "None", items |-> <<>>]

Keys == <<"Threat Type", "Scenario", "Potential Impact">>

Entry(t, s, i) == ("Threat Type" :> t) @@ ("Scenario" :> s) @@ ("Potential Impact" :> i)

TableHead ==
    <<"##", " ", "Threat", " ", "Model", "\n", "\n">>
    \o <<"|", " ", "Threat", " ", "Type", " ", "|", " ", "Scenario", " ", "|",
         " ", "Potential", " ", "Impact", " ", "|", "\n">>
    \o <<"|", "-------------", "|", "----------", "|", "------------------", "|", "\n">>

SuggestionsHead ==
    <<"\n", "\n", "##", " ", "Improvement", " ", "Suggestions", "\n", "\n">>

\* f"| {threat['Threat Type']} | {threat['Scenario']} | {threat['Potential Impact']} |\n"
Row(threat) ==
    <<"|", " ">> \o threat["Threat Type"] \o <<" ", "|", " ">> \o threat["Scenario"]
    \o <<" ", "|", " ">> \o threat["Potential Impact"] \o <<" ", "|", "\n">>

\* the first key of Keys the entry lacks (KeyError), "" if it has all three
MissingKey(threat) ==
    IF \A k \in 1..3 : Keys[k] \in DOMAIN threat THEN ""
    ELSE Keys[CHOOSE k \in 1..3 : /\ Keys[k] \notin DOMAIN threat
                                  /\ \A j \in 1..(k - 1) : Keys[j] \in DOMAIN threat]

Raise(msg) == [raised |-> msg, out |-> <<>>]
Return(out) == [raised |-> "", out |-> out]

\* the rows of the table, up to the first entry that raises
RECURSIVE Rows(_)
Rows(items) ==
    IF items = <<>> THEN Return(<<>>)
    ELSE IF MissingKey(Head(items)) # ""
         THEN Raise("'" \o MissingKey(Head(items)) \o "'")
         ELSE LET rest == Rows(Tail(items))
              IN  IF rest.raised # "" THEN rest
                  ELSE Return(Row(Head(items)) \o rest.out)

Bullets(items) == Concat([k \in 1..Len(items) |-> <<"-", " ">> \o items[k] \o <<"\n">>])

NotIterable == "'NoneType' object is not iterable"

json_to_markdown(threat_model, improvement_suggestions) ==
    IF threat_model.kind # "list" THEN Raise(NotIterable)
    ELSE LET rows == Rows(threat_model.items)
         IN  IF rows.raised # "" THEN rows
             ELSE IF improvement_suggestions.kind # "list" THEN Raise(NotIterable)
             ELSE Return(TableHead \o rows.out \o SuggestionsHead
                         \o Bullets(improvement_suggestions.items))

----------------------------------------------------------------------------
(* Inputs of a run: the widgets (src/main.py 224-275) and the three buttons *)

Buttons == {"threat_model", "attack_tree", "mitigations", "none"}

\* the description: left empty, or filled in
Descriptions == {<<>>, <<"notes", " ", "app">>}

Profiles ==
    { [app_type |-> "Web application", authentication |-> <<>>,
       internet_facing |-> "Yes", sensitive_data |-> "Top Secret", pam |-> "Yes"],
      [app_type |-> "Other", authentication |-> <<"SSO", "MFA">>,
       internet_facing |-> "No", sensitive_data |-> "None", pam |-> "No"] }

PleaseEnter == "Please enter your application details before submitting."
PleaseGenerate == "Please generate a threat model first before suggesting mitigations."

----------------------------------------------------------------------------
(* Prompt Builder: src/main.py 24-56, 98-111, 167-181 *)

create_threat_model_prompt(app_type, authentication, internet_facing, sensitive_data, pam, input) ==
    << "STRIDE threat list as JSON",
       <<"APPLICATION TYPE", app_type>>,
       <<"AUTHENTICATION METHODS", authentication>>,
       <<"INTERNET FACING", internet_facing>>,
       <<"SENSITIVE DATA", sensitive_data>>,
       <<"PRIVILEGED ACCESS MANAGEMENT", pam>>,
       <<"APPLICATION DESCRIPTION", input>> >>

create_attack_tree_prompt(app_type, authentication, internet_facing, sensitive_data, pam, input) ==
    << "attack tree in Mermaid syntax",
       <<"APPLICATION TYPE", app_type>>,
       <<"AUTHENTICATION METHODS", authentication>>,
       <<"INTERNET FACING", internet_facing>>,
       <<"SENSITIVE DATA", sensitive_data>>,
       <<"PRIVILEGED ACCESS MANAGEMENT", pam>>,
       <<"APPLICATION DESCRIPTION", input>> >>

create_mitigations_prompt(threats) ==
    << "mitigations as a markdown table", <<"Below is the list of identified threats:", threats>> >>

----------------------------------------------------------------------------
(* What the generation service can answer *)

ConnectionError == "Connection error."
AuthenticationError == "Incorrect API key provided."
JSONDecodeError == "Expecting value: line 1 column 1 (char 0)"
AttributeError == "'list' object has no attribute 'get'"
NameError == "name 'markdown_output' is not defined"

\* threat entries of the session model: a well-formed one, and one without "Threat Type"
E1 == Entry(<<"Spoofing">>, <<"stolen", " ", "token">>, <<"account", " ", "takeover">>)
EBad == ("Scenario" :> <<"stolen", " ", "token">>) @@ ("Potential Impact" :> <<"account", " ", "takeover">>)
SessionEntries == {E1, EBad}

Suggestion == <<"name", " ", "the", " ", "database">>

\* a JSON object: a function from the keys it has to their values
Obj1(k, v) == k :> v
Obj2(k1, v1, k2, v2) == (k1 :> v1) @@ (k2 :> v2)

ThreatValues == {None} \cup {List(l) : l \in SeqsUpTo(SessionEntries, MaxThreats)}
SuggestionValues == {None, List(<<Suggestion>>)}

Objects ==
    {<<>>}
    \cup {Obj1("threat_model", t) : t \in ThreatValues}
    \cup {Obj1("improvement_suggestions", g) : g \in SuggestionValues}
    \cup {Obj2("threat_model", t, "improvement_suggestions", g) :
            t \in ThreatValues, g \in SuggestionValues}

\* kind: error       client.chat.completions.create raises
\*       not_json    the content is not JSON text
\*       not_object  the content is JSON, but a list and no object
\*       object      the content is the JSON object obj
\*       text        the content is free text
Response(kind, message, obj, content) ==
    [kind |-> kind, message |-> message, obj |-> obj, content |-> content]

ThreatModelResponses ==
    { Response("error", ConnectionError, <<>>, <<>>),
      Response("error", AuthenticationError, <<>>, <<>>),
      Response("not_json", JSONDecodeError, <<>>, <<>>),
      Response("not_object", "", <<>>, <<>>) }
    \cup {Response("object", "", o, <<>>) : o \in Objects}

Diagram == <<"graph", " ", "TD", "\n", " ", "A-->B">>

AttackTreeResponses ==
    { Response("error", ConnectionError, <<>>, <<>>),
      Response("error", AuthenticationError, <<>>, <<>>),
      Response("text", "", <<>>, Wrap(Diagram)),
      Response("text", "", <<>>, Diagram) }

MitigationsTable == <<"|", " ", "Spoofing", " ", "|", " ", "rotate", " ", "tokens", " ", "|", "\n">>

MitigationsResponses ==
    { Response("error", ConnectionError, <<>>, <<>>),
      Response("error", AuthenticationError, <<>>, <<>>),
      Response("text", "", <<>>, MitigationsTable) }

----------------------------------------------------------------------------
(* Session state *)

\* 'threat_model' not in st.session_state
Unset == [kind |-> "unset", items |-> <<>>]

\* history: no ThreatModel attempt has ended in Success
NoSuccess == [kind |-> "no success", items |-> <<>>]

\* Python truth of a stored value: a non-empty list
Truthy(v) == v.kind = "list" /\ v.items # <<>>

\* dict.get(key, [])
Get(obj, key) == IF key \in DOMAIN obj THEN obj[key] ELSE List(<<>>)

Call(task, prompt) == [task |-> task, prompt |-> prompt]
Display(how, data) == [how |-> how, data |-> data]
Download(label, data, file_name, mime) ==
    [label |-> label, data |-> data, file_name |-> file_name, mime |-> mime]

----------------------------------------------------------------------------
(* The script run: src/main.py 385-508 *)

InitRun ==
    /\ pc = "idle"
    /\ button = "none"
    /\ app_input = <<>>
    /\ profile \in Profiles
    /\ session = Unset
    /\ errors = <<>>
    /\ shown = <<>>
    /\ downloads = <<>>
    /\ sections = {}
    /\ uncaught = ""
    /\ calls = <<>>
    /\ inflight = 0
    /\ pre = Unset
    /\ outcome = "none"
    /\ raised_in = ""
    /\ last_success = NoSuccess
    /\ raised_msg = ""
    /\ last_attempt = "none"

NotRun == [done |-> FALSE, raised |-> "", text |-> <<>>]
Ran(r) == [done |-> TRUE, raised |-> r.raised, text |-> r.out]

Init ==
    /\ InitRun
    /\ tree_body = <<>>
    /\ tree_out = NotRun
    /\ table_in = <<>>
    /\ table_out = NotRun

\* The user sets the widgets and clicks one button (or only edits a widget,
\* "none"): the script reruns from the top in a fresh namespace.
Submit(b, input, prof) ==
    /\ pc = "idle"
    /\ pc' = "tm"
    /\ button' = b
    /\ app_input' = input
    /\ profile' = prof
    /\ errors' = <<>>
    /\ shown' = <<>>
    /\ downloads' = <<>>
    /\ sections' = {}
    /\ uncaught' = ""
    /\ calls' = <<>>
    /\ pre' = session
    /\ outcome' = IF b = "none" THEN "none" ELSE "clicked"
    /\ raised_in' = ""
    /\ raised_msg' = ""
    /\ UNCHANGED <<session, inflight, last_success, last_attempt, pure_vars>>

\* line 393 without its test of app_input
ThreatModelSubmittedAnyInput == button = "threat_model"

\* line 393: threat_model_submit_button and app_input
ThreatModelSubmitted == button = "threat_model" /\ app_input # <<>>

\* lines 388-398 and 427-429: up to the call, or the validation message
ThreatModelSection ==
    /\ pc = "tm"
    /\ sections' = sections \cup {"Threat Model"}
    /\ IF ThreatModelSubmitted
       THEN /\ calls' = Append(calls, Call("threat_model",
                    create_threat_model_prompt(profile.app_type, profile.authentication,
                        profile.internet_facing, profile.sensitive_data, profile.pam,
                        app_input)))
            /\ inflight' = inflight + 1
            /\ outcome' = "submitted"
            /\ pc' = "tm_call"
            /\ UNCHANGED errors
       ELSE IF button = "threat_model"
       THEN /\ errors' = Append(errors, PleaseEnter)
            /\ outcome' = "validation_failed"
            /\ pc' = "at"
            /\ UNCHANGED <<calls, inflight>>
       ELSE /\ pc' = "at"
            /\ UNCHANGED <<errors, outcome, calls, inflight>>
    /\ UNCHANGED <<button, app_input, profile, session, shown, downloads, uncaught,
                   pre, raised_in, last_success, raised_msg, last_attempt, pure_vars>>

Tried(sess, raised, where, bound, md) ==
    [session |-> sess, raised |-> raised, raised_in |-> where, bound |-> bound,
     markdown_output |-> md]

\* lines 403-414: the parsed answer is read, stored (line 408) and only then
\* rendered (line 411)
ThreatModelInterpret(resp, sess) ==
    IF resp.kind # "object"
    THEN Tried(sess, AttributeError, "interpret", FALSE, <<>>)
    ELSE LET threat_model == Get(resp.obj, "threat_model")
             improvement_suggestions == Get(resp.obj, "improvement_suggestions")
             md == json_to_markdown(threat_model, improvement_suggestions)
         IN  IF md.raised # ""
             THEN Tried(threat_model, md.raised, "render", FALSE, <<>>)
             ELSE Tried(threat_model, "", "", TRUE, md.out)

\* the try block with the stored list emptied before the call is made
ThreatModelTryResetsFirst(resp, sess) ==
    IF resp.kind \in {"error", "not_json"}
    THEN Tried(List(<<>>), resp.message, "call", FALSE, <<>>)
    ELSE ThreatModelInterpret(resp, sess)

\* lines 399-414, the try block, on the service's answer resp with sess stored:
\* what is stored afterwards, what was raised and where, and whether
\* markdown_output was bound.  get_threat_model (60-75) raises when the call
\* fails and when json.loads rejects the content.
ThreatModelTry(resp, sess) ==
    IF resp.kind \in {"error", "not_json"}
    THEN Tried(sess, resp.message, "call", FALSE, <<>>)
    ELSE ThreatModelInterpret(resp, sess)

\* lines 399-425: the call returns or raises, the try block and its handler
\* run, then the download button is created from markdown_output
ThreatModelReturn(resp) ==
    LET t == ThreatModelTry(resp, session)
        failed == t.raised # ""
    IN  /\ pc = "tm_call"
        /\ inflight' = inflight - 1
        /\ session' = t.session
        /\ errors' = IF failed
                     THEN Append(errors, "Error generating threat model: " \o t.raised)
                     ELSE errors
        /\ shown' = IF failed THEN shown ELSE Append(shown, Display("markdown", t.markdown_output))
        /\ outcome' = IF failed THEN "failed" ELSE "success"
        /\ raised_in' = t.raised_in
        /\ last_success' = IF failed THEN last_success ELSE t.session
        /\ raised_msg' = IF resp.kind \in {"error", "not_json"} THEN resp.message ELSE ""
        /\ last_attempt' = IF failed THEN "failed" ELSE "success"
        /\ IF t.bound
           THEN /\ downloads' = Append(downloads,
                        Download("Download Threat Model", t.markdown_output,
                                 "stride_gpt_threat_model.md", "text/markdown"))
                /\ uncaught' = uncaught
                /\ pc' = "at"
           ELSE /\ downloads' = downloads
                /\ uncaught' = NameError
                /\ pc' = "idle"
        /\ UNCHANGED <<button, app_input, profile, sections, calls, pre, pure_vars>>

\* line 441: attack_tree_submit_button and app_input
AttackTreeSubmitted == button = "attack_tree" /\ app_input # <<>>

\* lines 436-446: up to the call; an empty description has no branch here
AttackTreeSection ==
    /\ pc = "at"
    /\ sections' = sections \cup {"Attack Tree"}
    /\ IF AttackTreeSubmitted
       THEN /\ calls' = Append(calls, Call("attack_tree",
                    create_attack_tree_prompt(profile.app_type, profile.authentication,
                        profile.internet_facing, profile.sensitive_data, profile.pam,
                        app_input)))
            /\ inflight' = inflight + 1
            /\ outcome' = "submitted"
            /\ pc' = "at_call"
       ELSE /\ pc' = "mit"
            /\ UNCHANGED <<outcome, calls, inflight>>
    /\ UNCHANGED <<button, app_input, profile, session, errors, shown, downloads,
                   uncaught, pre, raised_in, last_success, raised_msg, last_attempt,
                   pure_vars>>

\* lines 447-469: the call returns or raises; code, diagram and download
\* button are all inside the try block
AttackTreeReturn(resp) ==
    /\ pc = "at_call"
    /\ inflight' = inflight - 1
    /\ IF resp.kind = "error"
       THEN /\ errors' = Append(errors, "Error generating attack tree: " \o resp.message)
            /\ outcome' = "failed"
            /\ raised_in' = "call"
            /\ UNCHANGED <<shown, downloads>>
       ELSE LET mermaid_code == get_attack_tree(resp.content)
            IN  /\ shown' = shown \o <<Display("code", mermaid_code),
                                       Display("mermaid", mermaid_code)>>
                /\ downloads' = Append(downloads,
                        Download("Download Diagram Code", mermaid_code,
                                 "attack_tree.md", "text/plain"))
                /\ outcome' = "success"
                /\ UNCHANGED <<errors, raised_in>>
    /\ pc' = "mit"
    /\ raised_msg' = IF resp.kind = "error" THEN resp.message ELSE ""
    /\ UNCHANGED <<button, app_input, profile, session, sections, uncaught, calls,
                   pre, last_success, last_attempt, pure_vars>>

\* line 483 without its test of the stored value's truth
ThreatModelStoredAnyValue == session # Unset

\* line 483: 'threat_model' in st.session_state and st.session_state['threat_model']
ThreatModelStored == session # Unset /\ Truthy(session)

\* lines 476-490 and 507-508: the stored list is rendered outside the try
\* block, then the call is issued; or the validation message
MitigationsSection ==
    /\ pc = "mit"
    /\ sections' = sections \cup {"Mitigations"}
    /\ IF button = "mitigations" /\ ThreatModelStored
       THEN LET threats_markdown == json_to_markdown(session, List(<<>>))
            IN  IF threats_markdown.raised # ""
                THEN /\ uncaught' = threats_markdown.raised
                     /\ outcome' = "crashed"
                     /\ raised_in' = "render"
                     /\ pc' = "idle"
                     /\ UNCHANGED <<errors, calls, inflight>>
                ELSE /\ calls' = Append(calls, Call("mitigations",
                             create_mitigations_prompt(threats_markdown.out)))
                     /\ inflight' = inflight + 1
                     /\ outcome' = "submitted"
                     /\ pc' = "mit_call"
                     /\ UNCHANGED <<errors, uncaught, raised_in>>
       ELSE IF button = "mitigations"
       THEN /\ errors' = Append(errors, PleaseGenerate)
            /\ outcome' = "validation_failed"
            /\ pc' = "idle"
            /\ UNCHANGED <<calls, inflight, uncaught, raised_in>>
       ELSE /\ pc' = "idle"
            /\ UNCHANGED <<errors, outcome, calls, inflight, uncaught, raised_in>>
    /\ UNCHANGED <<button, app_input, profile, session, shown, downloads, pre,
                   last_success, raised_msg, last_attempt, pure_vars>>

\* lines 505-506 with the retry a caller might add: the call is issued again
MitigationsExceptRetries(resp) ==
    /\ calls' = Append(calls, calls[Len(calls)])
    /\ inflight' = inflight
    /\ pc' = "mit_call"
    /\ UNCHANGED <<errors, outcome, raised_in, shown, downloads, session>>

\* lines 505-506 with the text of the exception left out of the message
MitigationsExceptNoText(resp) ==
    /\ errors' = Append(errors, "Error suggesting mitigations")
    /\ outcome' = "failed"
    /\ raised_in' = "call"
    /\ inflight' = inflight - 1
    /\ pc' = "idle"
    /\ UNCHANGED <<shown, downloads, calls, session>>

\* lines 505-506: the handler of the try block
MitigationsExcept(resp) ==
    /\ errors' = Append(errors, "Error suggesting mitigations: " \o resp.message)
    /\ outcome' = "failed"
    /\ raised_in' = "call"
    /\ inflight' = inflight - 1
    /\ pc' = "idle"
    /\ UNCHANGED <<shown, downloads, calls, session>>

\* the try block with the stored list dropped once mitigations are shown
MitigationsTryConsumes(resp) ==
    LET mitigations_markdown == resp.content
    IN  /\ shown' = Append(shown, Display("markdown", mitigations_markdown))
        /\ downloads' = Append(downloads,
                Download("Download Mitigations", mitigations_markdown,
                         "mitigations.md", "text/markdown"))
        /\ outcome' = "success"
        /\ inflight' = inflight - 1
        /\ pc' = "idle"
        /\ session' = Unset
        /\ UNCHANGED <<errors, raised_in, calls>>

\* lines 492-504: the try block once the call has returned
MitigationsTry(resp) ==
    LET mitigations_markdown == resp.content
    IN  /\ shown' = Append(shown, Display("markdown", mitigations_markdown))
        /\ downloads' = Append(downloads,
                Download("Download Mitigations", mitigations_markdown,
                         "mitigations.md", "text/markdown"))
        /\ outcome' = "success"
        /\ inflight' = inflight - 1
        /\ pc' = "idle"
        /\ UNCHANGED <<errors, raised_in, calls, session>>

\* lines 491-506: the call returns or raises
MitigationsReturn(resp) ==
    /\ pc = "mit_call"
    /\ IF resp.kind = "error" THEN MitigationsExcept(resp) ELSE MitigationsTry(resp)
    /\ raised_msg' = IF resp.kind = "error" THEN resp.message ELSE ""
    /\ UNCHANGED <<button, app_input, profile, sections, uncaught, pre, last_success,
                   last_attempt, pure_vars>>

Next ==
    \/ \E b \in Buttons, input \in Descriptions, prof \in Profiles : Submit(b, input, prof)
    \/ ThreatModelSection
    \/ \E resp \in ThreatModelResponses : ThreatModelReturn(resp)
    \/ AttackTreeSection
    \/ \E resp \in AttackTreeResponses : AttackTreeReturn(resp)
    \/ MitigationsSection
    \/ \E resp \in MitigationsResponses : MitigationsReturn(resp)

Spec == Init /\ [][Next]_vars

----------------------------------------------------------------------------
(* The attack-tree interpreter on its own: every body between the fences *)

BodyChars == {BT, "mermaid", " ", "\n", "x"}

InitTree ==
    /\ InitRun
    /\ tree_body \in SeqsUpTo(BodyChars, MaxBody)
    /\ tree_out = NotRun
    /\ table_in = <<>>
    /\ table_out = NotRun

InterpretAttackTree ==
    /\ ~tree_out.done
    /\ tree_out' = Ran(Return(get_attack_tree(Wrap(tree_body))))
    /\ UNCHANGED <<run_vars, tree_body, table_in, table_out>>

SpecTree == InitTree /\ [][InterpretAttackTree]_vars

----------------------------------------------------------------------------
(* The presenter on its own: every threat list over a few field values *)

FieldValues == {<<"T">>, <<"a", "|", "b">>, <<"x", "\n", "y">>}

TableEntries == {Entry(t, s, i) : t \in FieldValues, s \in FieldValues, i \in FieldValues}

InitTable ==
    /\ InitRun
    /\ tree_body = <<>>
    /\ tree_out = NotRun
    /\ table_in \in SeqsUpTo(TableEntries, MaxRows)
    /\ table_out = NotRun

Present ==
    /\ ~table_out.done
    /\ table_out' = Ran(json_to_markdown(List(table_in), List(<<>>)))
    /\ UNCHANGED <<run_vars, tree_body, tree_out, table_in>>

SpecTable == InitTable /\ [][Present]_vars

----------------------------------------------------------------------------
(* Properties *)

AllSections == {"Threat Model", "Attack Tree", "Mitigations"}

\* C1: once a run has ended, the stored threat list, if present, is the list
\* of the most recent ThreatModel attempt that ended in Success, never one
\* written by an attempt that showed 'Error generating threat model: ...'.
C1_StoredIsLastSuccess ==
    (pc = "idle" /\ session # Unset) => session = last_success

\* C2: a ThreatModel submit with a non-empty description that fails shows its
\* error message, produces no download button and no partial result, lets no
\* exception escape, and the run goes on through the Attack Tree and
\* Mitigations sections.
C2_FailureHandledAtCallSite ==
    (pc = "idle" /\ button = "threat_model" /\ app_input # <<>> /\ outcome = "failed")
    => /\ Len(errors) = 1
       /\ downloads = <<>>
       /\ shown = <<>>
       /\ uncaught = ""
       /\ sections = AllSections

\* C3: when the generation call of a ThreatModel submit raises (the service
\* fails, or its text is not JSON), the stored threat list is what it was
\* before that submit.
C3_RaisedCallLeavesStored ==
    (button = "threat_model" /\ raised_in = "call") => session = pre

C3_Witness ==
    /\ pc = "idle"
    /\ button = "threat_model"
    /\ raised_in = "call"
    /\ Truthy(pre)
    /\ errors # <<>>

\* C4: a ThreatModel submit with an empty description shows the validation
\* message, issues no generation call and creates no download button,
\* whatever the other inputs and the stored threat list are.
C4_EmptyDescriptionRejected ==
    (button = "threat_model" /\ app_input = <<>> /\ pc # "tm")
    => /\ errors = <<PleaseEnter>>
       /\ calls = <<>>
       /\ inflight = 0
       /\ downloads = <<>>

C4_Witness ==
    /\ pc = "idle"
    /\ button = "threat_model"
    /\ app_input = <<>>
    /\ Truthy(session)
    /\ sections = AllSections

\* C5: an AttackTree submit with an empty description ends validation-Failed
\* with the message 'Please enter your application details before
\* submitting.' and no generation call.
C5_AttackTreeEmptyDescriptionRejected ==
    (pc = "idle" /\ button = "attack_tree" /\ app_input = <<>>)
    => /\ outcome = "validation_failed"
       /\ errors = <<PleaseEnter>>
       /\ calls = <<>>

\* C6: a Mitigations submit while no ThreatModel attempt has succeeded shows
\* 'Please generate a threat model first before suggesting mitigations.' and
\* issues no generation call.
C6_MitigationsNeedSuccess ==
    (button = "mitigations" /\ last_success = NoSuccess /\ pc \in {"mit_call", "idle"})
    => /\ errors = <<PleaseGenerate>>
       /\ calls = <<>>

\* the body neither starts nor ends with whitespace, and none of its lines
\* starts with the marker or ends with the delimiter
Clean(body) ==
    /\ body # <<>> => (body[1] \notin Whitespace /\ body[Len(body)] \notin Whitespace)
    /\ \A i \in 1..Len(body) :
         /\ ~(AtLineStart(body, i) /\ IsPrefixAt(body, i, Marker))
         /\ ~(IsPrefixAt(body, i, Fence) /\ AtLineEnd(body, i + Len(Fence)))

\* C7 as stated: for a marker line, a body and a delimiter line, the
\* interpreter returns exactly the body, for every body.
C7_ReturnsBody ==
    tree_out.done => tree_out.text = tree_body

\* C7 as amended: the interpreter returns exactly the body if and only if the
\* body neither starts nor ends with whitespace and none of its lines starts
\* with the marker or ends with the delimiter.
C7_ReturnsCleanBody ==
    tree_out.done => (tree_out.text = tree_body <=> Clean(tree_body))

\* a clean body with an indented inner line and a backtick in it
C7_Witness ==
    /\ tree_out.done
    /\ Clean(tree_body)
    /\ \E i \in 1..(Len(tree_body) - 1) : tree_body[i] = "\n" /\ tree_body[i + 1] = " "
    /\ \E i \in 1..Len(tree_body) : tree_body[i] = BT

C9_OnlyThreatModelWrites ==
    button \in {"attack_tree", "mitigations"} => session = pre

C9_Witness ==
    /\ pc = "idle"
    /\ button = "mitigations"
    /\ outcome = "success"
    /\ Truthy(session)

\* the pieces of text s between occurrences of sep
RECURSIVE Split(_, _)
Split(s, sep) ==
    IF \A k \in 1..Len(s) : s[k] # sep THEN <<s>>
    ELSE LET k == CHOOSE j \in 1..Len(s) : s[j] = sep /\ \A h \in 1..(j - 1) : s[h] # sep
         IN  <<SubSeq(s, 1, k - 1)>> \o Split(SubSeq(s, k + 1, Len(s)), sep)

\* a cell without the blank the presenter puts on each side of it
Unpad(cell) ==
    IF Len(cell) >= 2 /\ cell[1] = " " /\ cell[Len(cell)] = " "
    THEN SubSeq(cell, 2, Len(cell) - 1)
    ELSE cell

\* the cells of one table line: split on the bar, the piece before the first
\* bar and the piece after the last one dropped
Cells(line) ==
    LET pieces == Split(line, "|")
    IN  [k \in 1..(Len(pieces) - 2) |-> Unpad(pieces[k + 1])]

\* the lines from the k-th on, up to the first empty one
RECURSIVE DataLines(_, _)
DataLines(lines, k) ==
    IF k > Len(lines) \/ lines[k] = <<>> THEN <<>>
    ELSE <<lines[k]>> \o DataLines(lines, k + 1)

\* a trivial table parser: one data row per line after the title, the blank
\* line, the header and the rule; cells split on the bar
ParseTable(text) ==
    LET rows == DataLines(Split(text, "\n"), 5)
    IN  [k \in 1..Len(rows) |-> Cells(rows[k])]

\* C10: parsing the presenter's table with a trivial parser gives back the
\* threat list: one row per entry, in order, with the columns Threat Type,
\* Scenario, Potential Impact, also when a field holds a bar or a line break.
C10_TableRoundTrip ==
    table_out.done
    => ParseTable(table_out.text)
         = [k \in 1..Len(table_in) |->
              <<table_in[k]["Threat Type"], table_in[k]["Scenario"],
                table_in[k]["Potential Impact"]>>]

\* the task names of the message 'Error generating <task>: <message>'
TaskName ==
    [b \in {"threat_model", "attack_tree", "mitigations"} |->
        CASE b = "threat_model" -> "threat model"
          [] b = "attack_tree" -> "attack tree"
          [] b = "mitigations" -> "mitigations"]

\* the clicked task's generation call raised in the current run
CallRaised ==
    /\ button \in {"threat_model", "attack_tree", "mitigations"}
    /\ outcome = "failed"
    /\ raised_in = "call"

\* C11 as stated: for each of the three tasks, a failure raised by the
\* generation call is shown as 'Error generating <task>: <message>', <message>
\* being the text of the failure.
C11_ErrorGeneratingTask ==
    CallRaised
    => errors = <<"Error generating " \o TaskName[button] \o ": " \o raised_msg>>

\* C11 as amended: a failure raised by the generation call is shown as
\* 'Error generating threat model: <message>' for ThreatModel, as
\* 'Error generating attack tree: <message>' for AttackTree and as
\* 'Error suggesting mitigations: <message>' for Mitigations.
C11_ErrorMessagePerTask ==
    CallRaised
    => errors = << (IF button = "mitigations"
                    THEN "Error suggesting mitigations: "
                    ELSE "Error generating " \o TaskName[button] \o ": ")
                   \o raised_msg >>

C11_Witness ==
    /\ pc = "idle"
    /\ CallRaised
    /\ button = "mitigations"
    /\ raised_msg = AuthenticationError
    /\ errors # <<>>

\* a Mitigations submit made after the last ThreatModel call ended in Success
\* has had its Mitigations section processed
AfterSuccess ==
    /\ button = "mitigations"
    /\ last_attempt = "success"
    /\ pc \in {"mit_call", "idle"}

\* the Mitigations submit reached Submitted: its one call was issued, with the
\* prompt built from the list of the last Success, and no validation message
Submitted ==
    /\ calls = <<Call("mitigations",
                     create_mitigations_prompt(json_to_markdown(last_success, List(<<>>)).out))>>
    /\ outcome \in {"submitted", "success", "failed"}
    /\ \A k \in 1..Len(errors) : errors[k] # PleaseGenerate

\* C12 as stated: whenever the most recent ThreatModel attempt ended in
\* Success, a following Mitigations submit reaches Submitted and never the
\* validation message, also when the successful response had no threat_model
\* key or an empty threat list.
C12_MitigationsAfterSuccess ==
    AfterSuccess => Submitted

\* C12 as amended: after a most recent ThreatModel attempt that ended in
\* Success with a non-empty threat list, a Mitigations submit reaches
\* Submitted and never the validation message; after one that ended in
\* Success with no threat_model key or an empty list, it shows the validation
\* message and issues no call.
C12_MitigationsAfterNonEmptySuccess ==
    AfterSuccess
    => IF Truthy(last_success)
       THEN Submitted
       ELSE errors = <<PleaseGenerate>> /\ calls = <<>> /\ outcome = "validation_failed"

C12_Witness ==
    /\ AfterSuccess
    /\ Truthy(last_success)
    /\ pc = "mit_call"
    /\ inflight = 1

====
